---- MODULE Spec2Model ----
(***************************************************************************)
(* Model of the Google Scholar harvesting core: the paced fetch client     *)
(* (fetchPage / waitForRateLimit / getBackoffDelay), the block detection   *)
(* (isRateLimited / isBlocked), the scraper operations with their          *)
(* pagination loops, the sticky SerpAPI fallback flag and the SerpAPI      *)
(* adapter.  JavaScript is single threaded: every action below is one      *)
(* synchronous run of code between two awaits.                             *)
(***************************************************************************)
EXTENDS Integers, Sequences, FiniteSets, TLC

(***************************************************************************)
(* Program constants                                                       *)
(***************************************************************************)
minDelay == 1000
maxDelay == 5000
backoffMultiplier == 2
MAX_RETRIES == 3
resultsPerPage == 10
PAGE_SLEEP == 1000

\* ScholarErrorCode
RATE_LIMITED == "RATE_LIMITED"
BLOCKED == "BLOCKED"
NETWORK_ERROR == "NETWORK_ERROR"
INVALID_INPUT == "INVALID_INPUT"
NOT_FOUND == "NOT_FOUND"

(***************************************************************************)
(* Bounds of the model                                                     *)
(***************************************************************************)
\* a response (or a transport failure) arrives LatencySteps clock steps after
\* its request was sent
LatencySteps == 1
\* the random pacing delay is sampled at minDelay, minDelay + DelayStep, ...
DelayStep == 2000

Procs == {"p1", "p2"}
\* Times are kept relative to the present: Date.now() is the origin, a time
\* in the past is negative, a timer in the future positive.  The code only
\* ever uses differences of times, and no delay exceeds LongAgo, so a time
\* further back than LongAgo is kept as -LongAgo.
now == 0
LongAgo == maxDelay
\* the clock advances by at most IdleStep at a time
IdleStep == minDelay \div 2
Latency == LatencySteps * IdleStep

Max(a, b) == IF a > b THEN a ELSE b

Min(a, b) == IF a < b THEN a ELSE b

RECURSIVE Pow(_, _)
Pow(b, e) == IF e = 0 THEN 1 ELSE b * Pow(b, e - 1)

(***************************************************************************)
(* Text.  A body is a sequence of words; a word is a phrase in some letter *)
(* case.  toLowerCase maps every word to its lower-case form; includes is  *)
(* substring search.                                                       *)
(***************************************************************************)
rateLimitIndicators ==
  { "unusual traffic", "automated requests", "please show you", "robot",
    "captcha", "recaptcha", "sorry, we can't", "systems have detected" }

blockIndicators == { "access denied", "forbidden", "403", "blocked" }

Word(phrase, upper) == [phrase |-> phrase, upper |-> upper]

toLowerCase(body) == [i \in 1..Len(body) |-> Word(body[i].phrase, FALSE)]

\* needle occurs inside the phrase hay (both lower case)
Substring(needle, hay) ==
  \/ needle = hay
  \/ needle = "captcha" /\ hay = "recaptcha"

\* String.prototype.includes on a body: case sensitive
includes(body, needle) ==
  \E i \in 1..Len(body) : ~body[i].upper /\ Substring(needle, body[i].phrase)

\* (mutant) the indicators are searched in the body as it came
isRateLimited_CaseSensitive(html) ==
  \E indicator \in rateLimitIndicators : includes(html, indicator)

isRateLimited(html) ==
  LET lowerHtml == toLowerCase(html)
  IN  \E indicator \in rateLimitIndicators : includes(lowerHtml, indicator)

isBlocked(html) ==
  LET lowerHtml == toLowerCase(html)
  IN  \E indicator \in blockIndicators : includes(lowerHtml, indicator)

(***************************************************************************)
(* Pacer arithmetic                                                        *)
(***************************************************************************)
\* Math.floor(Math.random() * (max - min + 1) + min): any integer of
\* [min, max]; the model samples the interval every DelayStep
getRandomDelay(min, max) == { d \in min..max : (d - min) % DelayStep = 0 }

\* (mutant) the delay is not capped
getBackoffDelay_Uncapped(attempt) == minDelay * Pow(backoffMultiplier, attempt)

getBackoffDelay(attempt) ==
  Min(minDelay * Pow(backoffMultiplier, attempt), maxDelay * 10)

(***************************************************************************)
(* Pages of the primary source and the extractor                           *)
(***************************************************************************)
NoTitle == 0

\* a result page: how many cards it holds, which of them have no title, and
\* whether it shows an author profile header (#gsc_prf_in)
EmptyPage == [cards |-> 0, untitled |-> {}, profile |-> FALSE]
FullPage == [cards |-> resultsPerPage, untitled |-> {}, profile |-> TRUE]
HolesPage == [cards |-> resultsPerPage, untitled |-> {4, 5}, profile |-> TRUE]
PageShapes == { EmptyPage, FullPage, HolesPage }
\* a short page: 9 cards, one of them without a title
NinePage == [cards |-> resultsPerPage - 1, untitled |-> {3}, profile |-> TRUE]

\* the cards of a page served for the offset `start`: the card at position i
\* is the source's result number start + i
CardsOf(shape, start) ==
  [i \in 1..shape.cards |->
     [title |-> IF i \in shape.untitled THEN NoTitle ELSE start + i]]

CleanHtml == << Word("results", FALSE) >>

TransportFailure == [kind |-> "fail", html |-> << >>, cards |-> << >>, profile |-> FALSE]
NoResponse == [kind |-> "none", html |-> << >>, cards |-> << >>, profile |-> FALSE]

PageResponse(shape, start) ==
  [kind |-> "ok", html |-> CleanHtml, cards |-> CardsOf(shape, start),
   profile |-> shape.profile]

BlockResponse(body) ==
  [kind |-> "ok", html |-> body, cards |-> << >>, profile |-> FALSE]

\* block pages: every indicator alone in lower case, and mixed cases
UnusualTraffic == << Word("unusual traffic", FALSE) >>
UnusualTrafficUpper == << Word("unusual traffic", TRUE) >>
Forbidden == << Word("forbidden", FALSE) >>
ForbiddenAndUnusual == << Word("forbidden", FALSE), Word("unusual traffic", TRUE) >>
Code403AndUnusual == << Word("unusual traffic", FALSE), Word("403", FALSE) >>

MainBodies == { UnusualTraffic, Forbidden, ForbiddenAndUnusual }

AllBodies ==
  { << Word(w, u) >> : w \in rateLimitIndicators \cup blockIndicators, u \in BOOLEAN }
    \cup { UnusualTrafficUpper, ForbiddenAndUnusual, Code403AndUnusual }

\* (mutant) a card without a title makes the extraction give up the page
parsePublicationResults_DropsPage(cards, source) ==
  IF \E i \in 1..Len(cards) : cards[i].title = NoTitle THEN << >>
  ELSE [i \in 1..Len(cards) |-> [title |-> cards[i].title, source |-> source]]

\* (mutant) the extraction stops at the first card without a title
RECURSIVE parsePublicationResults_AbortsOnUntitled(_, _)
parsePublicationResults_AbortsOnUntitled(cards, source) ==
  IF cards = << >> \/ Head(cards).title = NoTitle THEN << >>
  ELSE << [title |-> Head(cards).title, source |-> source] >>
         \o parsePublicationResults_AbortsOnUntitled(Tail(cards), source)

\* parsePublicationResults: one record per card with a title, in page order
RECURSIVE parsePublicationResults(_, _)
parsePublicationResults(cards, source) ==
  IF cards = << >> THEN << >>
  ELSE LET title == Head(cards).title
           rest == parsePublicationResults(Tail(cards), source)
       IN  IF title = NoTitle THEN rest
           ELSE << [title |-> title, source |-> source] >> \o rest

\* (mutant) the accumulated list is returned whole
slice_NoLimit(s, n) == s

slice(s, n) == SubSeq(s, 1, Min(n, Len(s)))

(***************************************************************************)
(* State                                                                   *)
(***************************************************************************)
VARIABLES
  lastRequestTime,       \* helpers: let lastRequestTime
  currentUserAgentIndex, \* helpers: let currentUserAgentIndex
  useSerpApiFallback,    \* scraper: let useSerpApiFallback
  config,                \* config.serpApiKey (set or not), config.useSerpApiFallback
  frames,                \* per invocation: the locals of the running operation
  result,                \* per invocation: what the caller received
  hist,                  \* per invocation: what the operation has done so far
  lastSendTime,          \* when the last request to the primary was sent
  env,                   \* what the outside world does in this run
  cache,                 \* ScholarCache: private cache (the Map), by key
  cacheEnabled,          \* config.cacheEnabled
  cacheWritten,          \* by key: what the last effective set wrote, until
                         \* a delete or clear
  cacheHist,             \* the last generateKey, get and set calls
  backoffCalls,          \* the last two getBackoffDelay calls made on their own
  toolResult             \* per invocation: what handleToolCall returned

cacheVars == << cache, cacheEnabled, cacheWritten, cacheHist >>

vars == << lastRequestTime, currentUserAgentIndex, useSerpApiFallback,
           config, frames, result, hist, lastSendTime, env, cache,
           cacheEnabled, cacheWritten, cacheHist, backoffCalls, toolResult >>

OpKinds ==
  { "searchPublications", "searchAuthors", "getAuthorProfile", "getCitations",
    "getRelatedArticles", "getAllVersions", "advancedSearch" }

Paginated == { "searchPublications", "getCitations", "advancedSearch" }

NumResultsSet == { 5, 15 }
StartIndexSet == { 0 }
PageTargets == { 5, 10, 15 }
PageStarts == { 0, 10 }

Undefined == -1
NaN == -2

IdleFrame ==
  [op |-> "none", pc |-> "idle", queryOk |-> TRUE, numResults |-> 0,
   startIndex |-> 0, retryCount |-> 0, publications |-> << >>,
   currentStart |-> 0, phase |-> "pages", delay |-> 0, wake |-> 0,
   inflight |-> NoResponse]

NoResult ==
  [kind |-> "none", code |-> "none", provider |-> "none",
   publications |-> << >>, hasMore |-> FALSE, nextStartIndex |-> Undefined]

ErrorResult(code, provider) ==
  [NoResult EXCEPT !.kind = "error", !.code = code, !.provider = provider]

OkResult(provider, pubs, hasMore, next) ==
  [NoResult EXCEPT !.kind = "ok", !.provider = provider, !.publications = pubs,
                   !.hasMore = hasMore, !.nextStartIndex = next]

\* history of one invocation
NoHist ==
  [attempts |-> 0,        \* HTTP attempts of the current fetchPage call
   acquires |-> 0,        \* waitForRateLimit calls it completed
   slept |-> << >>,       \* backoff sleeps of the current fetchPage call
   html |-> << >>,        \* the body of the last response it received
   fetchOutcome |-> "none", \* what fetchPage made of the last attempt
   primarySent |-> 0,     \* requests sent to the primary source
   altSent |-> 0,         \* requests sent to the alternate provider
   userAgent |-> "none",  \* User-Agent header of its last request
   pages |-> << >>,       \* the cards of every page its loop has parsed
   offsets |-> << >>,     \* the `start` of every page its loop has asked for
   pageDelays |-> << >>,  \* per parsed page: the sleep taken after it, or 0
   resumed |-> FALSE,     \* the call continues an earlier call of the operation
   firstPages |-> << >>,  \* if so: the pages the earlier call parsed
   firstRecords |-> << >>, \* if so: the publications the earlier call returned
   altOutcome |-> "none", \* what the alternate provider answered
   flagAtStart |-> FALSE, \* useSerpApiFallback when the operation started
   availAtRaise |-> FALSE] \* isSerpApiAvailable() when fetchPage raised

Configs == [serpApiKey : BOOLEAN, useSerpApiFallback : BOOLEAN]

\* outcome: "returned" (a ToolResult) or "thrown" (a rejected promise);
\* advice: the sentence appended to `Error: ${error.message}`
NoToolResult == [outcome |-> "none", isError |-> FALSE, advice |-> "none"]

(***************************************************************************)
(* Result cache (ScholarCache).  Times are relative here too: an entry      *)
(* keeps its age, Date.now() - timestamp.                                   *)
(***************************************************************************)
cacheTtlMs == 3600000
\* the cache is observed every CacheStep ms
CacheStep == cacheTtlMs \div 2
\* an age beyond every ttl in use is kept as MaxAge
MaxAge == cacheTtlMs + CacheStep

\* a parameter record is the sequence of its name/value pairs in insertion
\* order; ParamNames lists the names in the order of Array.prototype.sort
ParamNames == << "author", "query", "year" >>

Rank(name) == CHOOSE i \in 1..Len(ParamNames) : ParamNames[i] = name

Str(text) == [type |-> "string", text |-> text]

Num(text) == [type |-> "number", text |-> text]

Pair(name, value) == [name |-> name, value |-> value]

\* JSON.stringify: a string is quoted, a number is not
JSONstringify(v) ==
  IF v.type = "string" THEN << "\"", v.text, "\"" >> ELSE << v.text >>

\* every insertion order of the pairs of s
Orders(s) ==
  { [i \in 1..Len(s) |-> s[f[i]]] : f \in Permutations(1..Len(s)) }

ParamRecords ==
  Orders(<< Pair("query", Str("ml")), Pair("author", Str("lee")),
            Pair("year", Num("2020")) >>)
    \cup Orders(<< Pair("query", Str("ml")), Pair("author", Str("lee")),
                   Pair("year", Str("2020")) >>)

CacheTypes == { "search" }

\* (mutant) the parameters are joined in insertion order
generateKey_Unsorted(type, params) ==
  [type |-> type,
   sortedParams |->
     [i \in 1..Len(params) |->
        << params[i].name, "=", JSONstringify(params[i].value) >>]]

\* generateKey: `${type}:${sortedParams}`, the sorted names each mapped to
\* `${key}=${JSON.stringify(params[key])}` (joined by '&')
generateKey(type, params) ==
  LET keys == SortSeq([i \in 1..Len(params) |-> params[i].name],
                      LAMBDA a, b : Rank(a) < Rank(b))
      valueOf(key) ==
        params[CHOOSE i \in 1..Len(params) : params[i].name = key].value
  IN  [type |-> type,
       sortedParams |->
         [i \in 1..Len(keys) |-> << keys[i], "=", JSONstringify(valueOf(keys[i])) >>]]

CacheKeys == { generateKey(t, ps) : t \in CacheTypes, ps \in ParamRecords }

CacheValues == { "v1", "v2" }

\* the ttl argument of set: left out, or shorter than config.cacheTtlMs
TtlArgs == { Undefined, CacheStep }

Absent == "null"

NoEntry == [present |-> FALSE, data |-> Absent, age |-> 0, ttl |-> 0]

\* { data, timestamp: Date.now(), ttl }
Entry(data, ttl) == [present |-> TRUE, data |-> data, age |-> 0, ttl |-> ttl]

EmptyCache == [k \in CacheKeys |-> NoEntry]

\* the map after d ms have passed
Aged(map, d) ==
  [k \in DOMAIN map |->
     IF map[k].present THEN [map[k] EXCEPT !.age = Min(@ + d, MaxAge)] ELSE map[k]]

\* (mutant) an entry is expired as soon as its age reaches its ttl
isExpired_AtTtl(entry) == entry.age >= entry.ttl

\* now - entry.timestamp > entry.ttl
isExpired(entry) == entry.age > entry.ttl

\* the last call of the cache interface; seq alternates with every call
NoCacheHist ==
  [op |-> "none", seq |-> 0, key |-> "none", returned |-> Absent,
   type |-> "none", params |-> << >>]

Called(op, key, returned) ==
  [NoCacheHist EXCEPT !.op = op, !.seq = 1 - cacheHist.seq, !.key = key,
                      !.returned = returned]

scraperVars ==
  << lastRequestTime, currentUserAgentIndex, useSerpApiFallback, config,
     frames, result, hist, lastSendTime, env, backoffCalls, toolResult >>

\* cache.generateKey(type, params)
GenerateKey ==
  /\ \E type \in CacheTypes, params \in ParamRecords :
       cacheHist' = [Called("generateKey", generateKey(type, params), Absent)
                       EXCEPT !.type = type, !.params = params]
  /\ UNCHANGED << scraperVars, cache, cacheEnabled, cacheWritten >>

\* (mutant) set stores the entry whether caching is enabled or not
CacheSet_IgnoresSwitch(key, data, ttl) ==
  /\ cache' = [cache EXCEPT ![key] =
                 Entry(data, IF ttl = Undefined THEN cacheTtlMs ELSE ttl)]
  /\ cacheWritten' =
       IF ~cacheEnabled THEN cacheWritten
       ELSE [cacheWritten EXCEPT ![key] =
               Entry(data, IF ttl = Undefined THEN cacheTtlMs ELSE ttl)]
  /\ cacheHist' = Called("set", key, Absent)
  /\ UNCHANGED << scraperVars, cacheEnabled >>

\* cache.set(key, data, ttl)
CacheSet(key, data, ttl) ==
  /\ IF ~cacheEnabled
     THEN UNCHANGED << cache, cacheWritten >>
     ELSE /\ cache' = [cache EXCEPT ![key] =
                 Entry(data, IF ttl = Undefined THEN cacheTtlMs ELSE ttl)]
          /\ cacheWritten' = [cacheWritten EXCEPT ![key] = cache'[key]]
  /\ cacheHist' = Called("set", key, Absent)
  /\ UNCHANGED << scraperVars, cacheEnabled >>

\* cache.get(key)
CacheGet(key) ==
  LET entry == cache[key]
  IN  /\ IF ~cacheEnabled \/ ~entry.present
         THEN /\ cacheHist' = Called("get", key, Absent)
              /\ cache' = cache
         ELSE IF isExpired(entry)
         THEN /\ cache' = [cache EXCEPT ![key] = NoEntry]
              /\ cacheHist' = Called("get", key, Absent)
         ELSE /\ cacheHist' = Called("get", key, entry.data)
              /\ cache' = cache
      /\ UNCHANGED << scraperVars, cacheEnabled, cacheWritten >>

\* cache.delete(key)
CacheDelete(key) ==
  /\ cache' = [cache EXCEPT ![key] = NoEntry]
  /\ cacheWritten' = [cacheWritten EXCEPT ![key] = NoEntry]
  /\ cacheHist' = Called("delete", key, Absent)
  /\ UNCHANGED << scraperVars, cacheEnabled >>

\* cache.clear()
CacheClear ==
  /\ cache' = EmptyCache
  /\ cacheWritten' = EmptyCache
  /\ cacheHist' = Called("clear", "none", Absent)
  /\ UNCHANGED << scraperVars, cacheEnabled >>

\* (mutant) the sweep also deletes the entries whose age equals their ttl
Cleanup_AtTtl ==
  /\ \E k \in CacheKeys : cache[k].present /\ cache[k].age >= cache[k].ttl
  /\ cache' = [k \in CacheKeys |->
                 IF cache[k].present /\ cache[k].age >= cache[k].ttl
                 THEN NoEntry ELSE cache[k]]
  /\ UNCHANGED << scraperVars, cacheEnabled, cacheWritten, cacheHist >>

\* the callback of startCleanup's setInterval: expired entries are deleted
Cleanup ==
  /\ \E k \in CacheKeys : cache[k].present /\ isExpired(cache[k])
  /\ cache' = [k \in CacheKeys |->
                 IF cache[k].present /\ isExpired(cache[k]) THEN NoEntry ELSE cache[k]]
  /\ UNCHANGED << scraperVars, cacheEnabled, cacheWritten, cacheHist >>

\* updateConfig({ cacheEnabled: ... })
SetCacheEnabled ==
  /\ cacheEnabled' = ~cacheEnabled
  /\ UNCHANGED << scraperVars, cache, cacheWritten, cacheHist >>

\* CacheStep ms pass
Elapse ==
  /\ \E k \in CacheKeys : cacheWritten[k].present /\ cacheWritten[k].age < MaxAge
  /\ cache' = Aged(cache, CacheStep)
  /\ cacheWritten' = Aged(cacheWritten, CacheStep)
  /\ UNCHANGED << scraperVars, cacheEnabled, cacheHist >>

\* no operation is running: only the cache interface is exercised
CacheEnv ==
  [bodies |-> {}, shapes |-> {}, failures |-> FALSE, procs |-> {}, ops |-> {},
   numResults |-> {}, startIndexes |-> {}, cacheEnabled |-> BOOLEAN,
   configs |-> { [serpApiKey |-> FALSE, useSerpApiFallback |-> FALSE] }]

\* the outside world of a run: the block pages the primary source serves,
\* the invocations the host runs side by side, and the calls it makes
MainEnv ==
  [bodies |-> MainBodies, shapes |-> PageShapes, failures |-> TRUE,
   procs |-> {"p1"}, ops |-> OpKinds, numResults |-> NumResultsSet,
   startIndexes |-> StartIndexSet, cacheEnabled |-> { TRUE }, configs |-> Configs]

\* one invocation at a time, against a source that serves every block page
FetchEnv ==
  [bodies |-> AllBodies, shapes |-> { FullPage }, failures |-> TRUE,
   procs |-> {"p1"}, ops |-> { "searchPublications", "searchAuthors" },
   numResults |-> { 15 }, startIndexes |-> StartIndexSet, cacheEnabled |-> { TRUE }, configs |-> Configs]

\* two invocations side by side, each a one-page operation, on a network
\* without transport failures
ConcurrentEnv ==
  [bodies |-> { UnusualTraffic }, shapes |-> { FullPage }, failures |-> FALSE,
   procs |-> Procs, ops |-> { "searchPublications", "searchAuthors" },
   numResults |-> { 5 }, startIndexes |-> StartIndexSet, cacheEnabled |-> { TRUE },
   configs |-> { c \in Configs : c.serpApiKey }]

\* one invocation at a time of a paginated operation, with every target
\* count around the page size and a start offset inside the result list
PagesEnv ==
  [bodies |-> { Forbidden }, shapes |-> PageShapes \cup { NinePage },
   failures |-> TRUE,
   procs |-> {"p1"}, ops |-> Paginated, numResults |-> PageTargets,
   startIndexes |-> PageStarts, cacheEnabled |-> { TRUE },
   configs |-> { c \in Configs : c.serpApiKey }]

InitWith(e) ==
  /\ lastRequestTime = -LongAgo
  /\ currentUserAgentIndex = 0
  /\ useSerpApiFallback = FALSE
  /\ config \in e.configs
  /\ frames = [p \in Procs |-> IdleFrame]
  /\ result = [p \in Procs |-> NoResult]
  /\ hist = [p \in Procs |-> NoHist]
  /\ lastSendTime = -LongAgo
  /\ env = e
  /\ cache = EmptyCache
  /\ cacheEnabled \in e.cacheEnabled
  /\ cacheWritten = EmptyCache
  /\ cacheHist = NoCacheHist
  /\ backoffCalls = << >>
  /\ toolResult = [p \in Procs |-> NoToolResult]

Init == InitWith(MainEnv)

InitConcurrent == InitWith(ConcurrentEnv)

InitFetch == InitWith(FetchEnv)

InitPages == InitWith(PagesEnv)

InitCache == InitWith(CacheEnv)

(***************************************************************************)
(* Configuration and user agents                                           *)
(***************************************************************************)
isSerpApiAvailable == config.serpApiKey /\ config.useSerpApiFallback

\* updateConfig(updates): Object.assign(config, updates)
UpdateConfig ==
  /\ \E c \in env.configs : c # config /\ config' = c
  /\ UNCHANGED << lastRequestTime, currentUserAgentIndex,
                  useSerpApiFallback, frames, result, hist, lastSendTime, env, cacheVars,
                  backoffCalls, toolResult >>

DEFAULT_USER_AGENTS == << "Chrome/Windows", "Chrome/Mac", "Firefox/Windows",
                          "Safari/Mac", "Chrome/Linux" >>

\* getUserAgent with rotate: the index after the call.  agents is the list
\* config.userAgents || DEFAULT_USER_AGENTS; x % 0 is NaN in JavaScript
rotatedIndex(agents, index) ==
  IF index = NaN \/ Len(agents) = 0 THEN NaN ELSE (index + 1) % Len(agents)

\* agents[currentUserAgentIndex]: undefined when the index is NaN or the
\* list has no such position
userAgentAt(agents, index) ==
  IF index = NaN \/ index >= Len(agents) THEN "undefined" ELSE agents[index + 1]

\* the list fetchPage hands to getUserAgent: `userAgents: []`.  An empty
\* array is truthy, so `config?.userAgents || DEFAULT_USER_AGENTS` keeps it.
fetchPageUserAgents == << >>

(***************************************************************************)
(* Tool handlers                                                           *)
(***************************************************************************)
\* the operations handleToolCall dispatches to
ToolOps ==
  { "searchPublications", "searchAuthors", "getAuthorProfile", "getCitations" }

\* the handlers pass no startIndex: the operation starts at its default, 0
ViaTool(f) == f.op \in ToolOps /\ f.startIndex = 0

\* the switch of handleError over error.code
adviceFor(code) ==
  CASE code = RATE_LIMITED -> "wait a few minutes before trying again"
    [] code = "CAPTCHA_REQUIRED" -> "CAPTCHA verification, try again later"
    [] code = BLOCKED -> "blocked, try again later or use a different network"
    [] code = NOT_FOUND -> "not found, check the ID"
    [] code = INVALID_INPUT -> "check your input parameters"
    [] OTHER -> "none"

\* handleError(error) for a ScholarError
handleError(error) ==
  [outcome |-> "returned", isError |-> TRUE, advice |-> adviceFor(error.code)]

\* (mutant) no try/catch around the handler: the error leaves handleToolCall
handleToolCall_NoCatch(r) ==
  IF r.kind = "error"
  THEN [outcome |-> "thrown", isError |-> FALSE, advice |-> "none"]
  ELSE [outcome |-> "returned", isError |-> FALSE, advice |-> "none"]

\* handleToolCall once the operation has settled with r: the handler formats
\* a result, the catch block hands an error to handleError
handleToolCall(r) ==
  IF r.kind = "error"
  THEN handleError(r)
  ELSE [outcome |-> "returned", isError |-> FALSE, advice |-> "none"]

\* the continuation of `await <operation>` in the handler of invocation p
Deliver(p) ==
  toolResult' = [toolResult EXCEPT ![p] =
    IF frames'[p].pc = "done" /\ ViaTool(frames'[p])
    THEN handleToolCall(result'[p]) ELSE NoToolResult]

(***************************************************************************)
(* Building blocks: each sets frames', hist', result' and lastRequestTime' *)
(* for one invocation p whose locals become f and whose history becomes h  *)
(***************************************************************************)
Sleeping == { "pacing", "http", "backoff", "pagesleep", "alt_http" }

\* the operation returns or throws to its caller
Finish(p, f, h, r) ==
  /\ frames' = [frames EXCEPT ![p] = [f EXCEPT !.pc = "done", !.wake = 0, !.delay = 0]]
  /\ hist' = [hist EXCEPT ![p] = h]
  /\ result' = [result EXCEPT ![p] = r]
  /\ lastRequestTime' = lastRequestTime

\* await sleep(ms)
Sleep(p, f, h, pc, ms) ==
  /\ frames' = [frames EXCEPT ![p] = [f EXCEPT !.pc = pc, !.wake = now + ms]]
  /\ hist' = [hist EXCEPT ![p] = h]
  /\ UNCHANGED << result, lastRequestTime >>

\* (mutant) waitForRateLimit sleeps the whole delay whenever it sleeps
EnterFetch_SleepsWholeDelay(p, f, h) ==
  \E delay \in getRandomDelay(minDelay, maxDelay) :
    LET timeSinceLastRequest == now - lastRequestTime
    IN  IF timeSinceLastRequest < delay
        THEN /\ frames' = [frames EXCEPT ![p] =
                  [f EXCEPT !.pc = "pacing", !.delay = delay,
                            !.wake = now + delay]]
             /\ hist' = [hist EXCEPT ![p] = h]
             /\ UNCHANGED << result, lastRequestTime >>
        ELSE /\ frames' = [frames EXCEPT ![p] =
                  [f EXCEPT !.pc = "send", !.delay = delay, !.wake = 0]]
             /\ hist' = [hist EXCEPT ![p] = [h EXCEPT !.acquires = @ + 1]]
             /\ lastRequestTime' = now
             /\ result' = result

\* fetchPage(url, retryCount) up to its first await: waitForRateLimit reads
\* the clock and lastRequestTime, draws a delay, and either starts to sleep
\* or stamps lastRequestTime at once
EnterFetch(p, f, h) ==
  \E delay \in getRandomDelay(minDelay, maxDelay) :
    LET timeSinceLastRequest == now - lastRequestTime
    IN  IF timeSinceLastRequest < delay
        THEN /\ frames' = [frames EXCEPT ![p] =
                  [f EXCEPT !.pc = "pacing", !.delay = delay,
                            !.wake = now + (delay - timeSinceLastRequest)]]
             /\ hist' = [hist EXCEPT ![p] = h]
             /\ UNCHANGED << result, lastRequestTime >>
        ELSE /\ frames' = [frames EXCEPT ![p] =
                  [f EXCEPT !.pc = "send", !.delay = delay, !.wake = 0]]
             /\ hist' = [hist EXCEPT ![p] = [h EXCEPT !.acquires = @ + 1]]
             /\ lastRequestTime' = now
             /\ result' = result

\* a new fetchPage(url) call of the operation: retryCount = 0
FreshFetch(p, f, h) ==
  EnterFetch(p, [f EXCEPT !.retryCount = 0],
                [h EXCEPT !.attempts = 0, !.acquires = 0, !.slept = << >>,
                          !.html = << >>, !.fetchOutcome = "none"])

(***************************************************************************)
(* Alternate provider (SerpAPI)                                            *)
(***************************************************************************)
AltItems(n, untitled) ==
  [i \in 1..n |-> [title |-> IF i \in untitled THEN NoTitle ELSE 100 + i]]

\* what the upstream call may come to: no response ("fail"), a response with
\* a non-2xx status ("status"), a body that declares `error` (here next to
\* a list of results), or a body with 0 or 5 results
AltResponses ==
  { [kind |-> "fail", html |-> << >>, cards |-> << >>, profile |-> FALSE],
    [kind |-> "status", html |-> << >>, cards |-> << >>, profile |-> FALSE],
    [kind |-> "error", html |-> << >>, cards |-> AltItems(5, {}), profile |-> FALSE],
    [kind |-> "ok", html |-> << >>, cards |-> AltItems(0, {}), profile |-> FALSE],
    [kind |-> "ok", html |-> << >>, cards |-> AltItems(5, {}), profile |-> FALSE],
    [kind |-> "ok", html |-> << >>, cards |-> AltItems(5, {2}), profile |-> FALSE] }

\* mapSerpApiResultToPublication: title: result.title, source: 'SERPAPI'
mapSerpApiResultToPublication(item) == [title |-> item.title, source |-> "SERPAPI"]

\* searchPublicationsSerpApi(options) up to its await: getApiKey(), then the
\* request is sent
searchPublicationsSerpApi(p, f, h) ==
  IF ~config.serpApiKey
  THEN Finish(p, f, h, ErrorResult(INVALID_INPUT, "alternate"))
  ELSE /\ \E r \in AltResponses :
            frames' = [frames EXCEPT ![p] =
              [f EXCEPT !.pc = "alt_http", !.inflight = r, !.wake = now + Latency]]
       /\ hist' = [hist EXCEPT ![p] = [h EXCEPT !.altSent = @ + 1]]
       /\ UNCHANGED << result, lastRequestTime >>

\* the exported functions of the alternate provider
AltFunctions ==
  { "searchPublicationsSerpApi", "searchAuthorsSerpApi", "getCitationsSerpApi",
    "getRelatedArticlesSerpApi", "getAllVersionsSerpApi" }

\* the host calls a function of the alternate provider itself; each of them
\* starts like searchPublicationsSerpApi: getApiKey(), then the request
CallAlternate(p) ==
  /\ p \in env.procs
  /\ frames[p].pc = "idle"
  /\ \E fn \in AltFunctions, numResults \in env.numResults,
        startIndex \in env.startIndexes :
       searchPublicationsSerpApi(p,
         [IdleFrame EXCEPT !.op = fn, !.numResults = numResults,
                           !.startIndex = startIndex],
         [NoHist EXCEPT !.flagAtStart = useSerpApiFallback])
  /\ UNCHANGED << currentUserAgentIndex, useSerpApiFallback, config,
                  lastSendTime, env, cacheVars, backoffCalls, toolResult >>

\* (mutant) the `error` field of the body is not looked at
serpApiOutcome_IgnoresErrorField(r) ==
  IF r.kind \in { "ok", "error" } THEN "ok" ELSE NETWORK_ERROR

\* how each function treats the outcome of axios.get: a rejected request
\* (no response, or a status outside 2xx) and a body with `error` both end
\* as NETWORK_ERROR
serpApiOutcome(r) == IF r.kind = "ok" THEN "ok" ELSE NETWORK_ERROR

\* what the function returns for the results of the body
serpApiResult(f, items) ==
  LET publications == [i \in 1..Len(items) |-> mapSerpApiResultToPublication(items[i])]
      more == Len(publications) >= f.numResults
  IN  CASE f.op = "searchAuthorsSerpApi" ->
             OkResult("alternate", slice(publications, f.numResults), FALSE, Undefined)
        [] f.op = "getRelatedArticlesSerpApi" ->
             OkResult("alternate", publications, FALSE, Undefined)
        [] f.op = "getAllVersionsSerpApi" ->
             OkResult("alternate",
                      [i \in 1..Len(items) |-> [publications[i] EXCEPT !.source = "VERSION"]],
                      FALSE, Undefined)
        [] OTHER ->
             OkResult("alternate", publications, more,
                      IF more THEN f.startIndex + Len(publications) ELSE Undefined)

\* the rest of searchPublicationsSerpApi (and of the four functions built
\* like it) once the response is in
AltRespond(p) ==
  LET f == frames[p]
      r == f.inflight
      f1 == [f EXCEPT !.inflight = NoResponse]
      h == [hist[p] EXCEPT !.altOutcome = r.kind]
  IN  /\ f.pc = "alt_http"
      /\ now >= f.wake
      /\ IF serpApiOutcome(r) = "ok"
         THEN Finish(p, f1, h, serpApiResult(f, r.cards))
         ELSE Finish(p, f1, h, ErrorResult(serpApiOutcome(r), "alternate"))
      /\ UNCHANGED << currentUserAgentIndex, useSerpApiFallback, config,
                      lastSendTime, env, cacheVars, backoffCalls >>
      /\ Deliver(p)

(***************************************************************************)
(* Scraper operations                                                      *)
(***************************************************************************)
\* provenance tag the operation puts on its records
SourceTag(op) ==
  CASE op = "searchPublications" -> "PUBLICATION_SEARCH"
    [] op = "getCitations" -> "CITATION"
    [] op = "getRelatedArticles" -> "RELATED"
    [] op = "getAllVersions" -> "VERSION"
    [] op = "advancedSearch" -> "ADVANCED_SEARCH"
    [] op = "getAuthorProfile" -> "AUTHOR_PROFILE"
    [] OTHER -> "AUTHOR_SEARCH"

\* (mutant) falls back without asking whether the alternate is available
ShouldFallback_IgnoresAvailability(op, code) ==
  /\ op = "searchPublications"
  /\ code \in { BLOCKED, RATE_LIMITED }

\* (mutant) falls back on any error of fetchPage
ShouldFallback_OnAnyError(op, code) ==
  /\ op = "searchPublications"
  /\ isSerpApiAvailable

\* the catch block of searchPublications is the only place that falls back
ShouldFallback(op, code) ==
  /\ op = "searchPublications"
  /\ code \in { BLOCKED, RATE_LIMITED }
  /\ isSerpApiAvailable

\* the entry check of searchPublications
UseFallbackDirectly(op) ==
  op = "searchPublications" /\ useSerpApiFallback /\ isSerpApiAvailable

\* an operation is called: its code up to the first await
Start(p) ==
  /\ p \in env.procs
  /\ frames[p].pc = "idle"
  /\ \E op \in env.ops, queryOk \in BOOLEAN, numResults \in env.numResults,
        startIndex \in env.startIndexes :
       LET f == [IdleFrame EXCEPT !.op = op, !.queryOk = queryOk,
                                  !.numResults = numResults,
                                  !.startIndex = startIndex,
                                  !.currentStart =
                                     IF op = "advancedSearch" THEN 0 ELSE startIndex]
           h == [NoHist EXCEPT !.flagAtStart = useSerpApiFallback]
       IN  IF UseFallbackDirectly(op) THEN searchPublicationsSerpApi(p, f, h)
           ELSE IF ~queryOk THEN Finish(p, f, h, ErrorResult(INVALID_INPUT, "none"))
           ELSE FreshFetch(p, f,
                  [h EXCEPT !.offsets =
                     IF op \in Paginated THEN << f.currentStart >> ELSE << >>])
  /\ UNCHANGED << currentUserAgentIndex, useSerpApiFallback, config,
                  lastSendTime, env, cacheVars, backoffCalls >>
  /\ Deliver(p)

\* the caller takes the result of a paginated operation and calls the same
\* operation again with startIndex = the nextStartIndex it was given
Resume(p) ==
  /\ frames[p].pc = "done"
  /\ frames[p].op \in { "searchPublications", "getCitations" }
  /\ result[p].kind = "ok" /\ result[p].provider = "primary"
  /\ ~hist[p].resumed
  /\ LET f == [IdleFrame EXCEPT !.op = frames[p].op,
                                !.numResults = frames[p].numResults,
                                !.startIndex = result[p].nextStartIndex,
                                !.currentStart = result[p].nextStartIndex]
         h == [NoHist EXCEPT !.flagAtStart = useSerpApiFallback,
                             !.resumed = TRUE,
                             !.firstPages = hist[p].pages,
                             !.firstRecords = result[p].publications]
     IN  IF UseFallbackDirectly(f.op) THEN searchPublicationsSerpApi(p, f, h)
         ELSE FreshFetch(p, f, [h EXCEPT !.offsets = << f.currentStart >>])
  /\ UNCHANGED << currentUserAgentIndex, useSerpApiFallback, config,
                  lastSendTime, env, cacheVars, backoffCalls >>
  /\ Deliver(p)

\* waitForRateLimit after its sleep: lastRequestTime = Date.now()
PacerWake(p) ==
  /\ frames[p].pc = "pacing"
  /\ now >= frames[p].wake
  /\ frames' = [frames EXCEPT ![p] = [@ EXCEPT !.pc = "send", !.wake = 0]]
  /\ hist' = [hist EXCEPT ![p] = [@ EXCEPT !.acquires = @ + 1]]
  /\ lastRequestTime' = now
  /\ UNCHANGED << currentUserAgentIndex, useSerpApiFallback, config,
                  result, lastSendTime, env, cacheVars,
                  backoffCalls, toolResult >>

\* what the primary source may answer to a request for the offset `start`
Responses(start) ==
  (IF env.failures THEN { TransportFailure } ELSE {})
    \cup { BlockResponse(b) : b \in env.bodies }
    \cup { PageResponse(shape, start) : shape \in env.shapes }

\* fetchPage after `await waitForRateLimit()`: axios.get is issued with
\* getUserAgent({ rotate: true, userAgents: [] })
Send(p) ==
  LET f == frames[p]
      start == IF f.phase = "total" THEN 0 ELSE f.currentStart
  IN  /\ f.pc = "send"
      /\ \E r \in Responses(start) :
           frames' = [frames EXCEPT ![p] =
             [f EXCEPT !.pc = "http", !.inflight = r, !.delay = 0,
                       !.wake = now + Latency]]
      /\ hist' = [hist EXCEPT ![p] =
           [@ EXCEPT !.attempts = @ + 1, !.primarySent = @ + 1,
                     !.html = << >>, !.fetchOutcome = "pending",
                     !.userAgent =
                        userAgentAt(fetchPageUserAgents,
                          rotatedIndex(fetchPageUserAgents, currentUserAgentIndex))]]
      /\ currentUserAgentIndex' =
           rotatedIndex(fetchPageUserAgents, currentUserAgentIndex)
      /\ lastSendTime' = now
      /\ UNCHANGED << lastRequestTime, useSerpApiFallback, config, result, env, cacheVars,
                  backoffCalls, toolResult >>

\* (mutant) a block page is retried like a transport failure
fetchPageOutcome_RetriesBlocks(r, retryCount) ==
  IF r.kind = "fail" \/ isRateLimited(r.html) \/ isBlocked(r.html)
  THEN IF retryCount < MAX_RETRIES THEN "retry"
       ELSE IF r.kind = "fail" THEN NETWORK_ERROR
       ELSE IF isRateLimited(r.html) THEN RATE_LIMITED ELSE BLOCKED
  ELSE "html"

\* (mutant) retryCount <= MAX_RETRIES: one retry too many
fetchPageOutcome_OffByOne(r, retryCount) ==
  IF r.kind = "fail"
  THEN IF retryCount <= MAX_RETRIES THEN "retry" ELSE NETWORK_ERROR
  ELSE IF isRateLimited(r.html) THEN RATE_LIMITED
  ELSE IF isBlocked(r.html) THEN BLOCKED
  ELSE "html"

\* how fetchPage treats the outcome of axios.get
fetchPageOutcome(r, retryCount) ==
  IF r.kind = "fail"
  THEN IF retryCount < MAX_RETRIES THEN "retry" ELSE NETWORK_ERROR
  ELSE IF isRateLimited(r.html) THEN RATE_LIMITED
  ELSE IF isBlocked(r.html) THEN BLOCKED
  ELSE "html"

\* (mutant) useSerpApiFallback = <the fallback condition> instead of = true
Raise_AssignsFlag(p, f, h, code) ==
  LET h1 == [h EXCEPT !.availAtRaise = isSerpApiAvailable]
  IN  /\ useSerpApiFallback' = ShouldFallback(f.op, code)
      /\ IF ShouldFallback(f.op, code)
         THEN searchPublicationsSerpApi(p, f, h1)
         ELSE Finish(p, f, h1, ErrorResult(code, "primary"))

\* fetchPage threw `code` into the operation
Raise(p, f, h, code) ==
  LET h1 == [h EXCEPT !.availAtRaise = isSerpApiAvailable]
  IN  IF ShouldFallback(f.op, code)
      THEN /\ useSerpApiFallback' = TRUE
           /\ searchPublicationsSerpApi(p, f, h1)
      ELSE /\ useSerpApiFallback' = useSerpApiFallback
           /\ Finish(p, f, h1, ErrorResult(code, "primary"))

\* (mutant) hasMore: publications.length > numResults
AfterLoop_StrictHasMore(p, f, h) ==
  IF f.op = "getCitations"
  THEN FreshFetch(p, [f EXCEPT !.phase = "total"], h)
  ELSE Finish(p, f, h,
         OkResult("primary", slice(f.publications, f.numResults),
                  Len(f.publications) > f.numResults, f.currentStart))

\* the pagination loop is over (target reached or an empty page)
AfterLoop(p, f, h) ==
  IF f.op = "getCitations"
  THEN \* one more fetchPage for the "About N results" count
       FreshFetch(p, [f EXCEPT !.phase = "total"], h)
  ELSE Finish(p, f, h,
         OkResult("primary", slice(f.publications, f.numResults),
                  Len(f.publications) >= f.numResults, f.currentStart))

\* (mutant) the inter-page sleep is taken after every page that holds records
Return_SleepsAfterEveryPage(p, f, h, r) ==
  LET h1 == IF f.op \in Paginated /\ f.phase = "pages"
            THEN [h EXCEPT !.pages = Append(@, r.cards)] ELSE h
      results == parsePublicationResults(r.cards, SourceTag(f.op))
      after(ms) == [h1 EXCEPT !.pageDelays = Append(@, ms)]
  IN  /\ useSerpApiFallback' = useSerpApiFallback
      /\ CASE f.op \in Paginated /\ f.phase = "pages" ->
                IF Len(results) = 0 THEN AfterLoop(p, f, after(0))
                ELSE LET f2 == [f EXCEPT !.publications = @ \o results,
                                         !.currentStart = @ + resultsPerPage]
                     IN  Sleep(p, f2, after(PAGE_SLEEP), "pagesleep", PAGE_SLEEP)
           [] f.op = "getCitations" /\ f.phase = "total" ->
                Finish(p, f, h1,
                  OkResult("primary", slice(f.publications, f.numResults),
                           Len(f.publications) >= f.numResults, f.currentStart))
           [] f.op = "searchAuthors" ->
                Finish(p, f, h1,
                  OkResult("primary", slice(results, f.numResults),
                           Len(results) >= 10, Undefined))
           [] f.op = "getAuthorProfile" ->
                IF ~r.profile THEN Finish(p, f, h1, ErrorResult(NOT_FOUND, "primary"))
                ELSE Finish(p, f, h1, OkResult("primary", results, FALSE, Undefined))
           [] f.op = "getRelatedArticles" ->
                Finish(p, f, h1,
                  OkResult("primary", slice(results, f.numResults), FALSE, Undefined))
           [] f.op = "getAllVersions" ->
                Finish(p, f, h1, OkResult("primary", results, FALSE, Undefined))

\* fetchPage returned html to the operation
Return(p, f, h, r) ==
  LET h1 == IF f.op \in Paginated /\ f.phase = "pages"
            THEN [h EXCEPT !.pages = Append(@, r.cards)] ELSE h
      results == parsePublicationResults(r.cards, SourceTag(f.op))
      after(ms) == [h1 EXCEPT !.pageDelays = Append(@, ms)]
  IN  /\ useSerpApiFallback' = useSerpApiFallback
      /\ CASE f.op \in Paginated /\ f.phase = "pages" ->
                IF Len(results) = 0 THEN AfterLoop(p, f, after(0))
                ELSE LET f2 == [f EXCEPT !.publications = @ \o results,
                                         !.currentStart = @ + resultsPerPage]
                     IN  IF Len(f2.publications) < f.numResults
                         THEN Sleep(p, f2, after(PAGE_SLEEP), "pagesleep", PAGE_SLEEP)
                         ELSE AfterLoop(p, f2, after(0))
           [] f.op = "getCitations" /\ f.phase = "total" ->
                Finish(p, f, h1,
                  OkResult("primary", slice(f.publications, f.numResults),
                           Len(f.publications) >= f.numResults, f.currentStart))
           [] f.op = "searchAuthors" ->
                Finish(p, f, h1,
                  OkResult("primary", slice(results, f.numResults),
                           Len(results) >= 10, Undefined))
           [] f.op = "getAuthorProfile" ->
                IF ~r.profile THEN Finish(p, f, h1, ErrorResult(NOT_FOUND, "primary"))
                ELSE Finish(p, f, h1, OkResult("primary", results, FALSE, Undefined))
           [] f.op = "getRelatedArticles" ->
                Finish(p, f, h1,
                  OkResult("primary", slice(results, f.numResults), FALSE, Undefined))
           [] f.op = "getAllVersions" ->
                Finish(p, f, h1, OkResult("primary", results, FALSE, Undefined))

\* fetchPage after `await axios.get`: the response or the failure is in
Respond(p) ==
  LET f == frames[p]
      r == f.inflight
      outcome == fetchPageOutcome(r, f.retryCount)
      h == [hist[p] EXCEPT !.html = r.html, !.fetchOutcome = outcome]
      f1 == [f EXCEPT !.inflight = NoResponse]
  IN  /\ f.pc = "http"
      /\ now >= f.wake
      /\ CASE outcome = "retry" ->
                /\ Sleep(p, f1, [h EXCEPT !.slept = Append(@, getBackoffDelay(f.retryCount))],
                         "backoff", getBackoffDelay(f.retryCount))
                /\ useSerpApiFallback' = useSerpApiFallback
           [] outcome = "html" -> Return(p, f1, h, r)
           [] OTHER -> Raise(p, f1, h, outcome)
      /\ UNCHANGED << currentUserAgentIndex, config, lastSendTime, env, cacheVars, backoffCalls >>
      /\ Deliver(p)

\* (mutant) the retry goes straight to axios.get, past waitForRateLimit
BackoffWake_SkipsPacer(p) ==
  /\ frames[p].pc = "backoff"
  /\ now >= frames[p].wake
  /\ frames' = [frames EXCEPT ![p] =
       [@ EXCEPT !.retryCount = @ + 1, !.pc = "send", !.wake = 0]]
  /\ UNCHANGED << lastRequestTime, currentUserAgentIndex, useSerpApiFallback,
                  config, result, hist, lastSendTime, env, cacheVars,
                  backoffCalls, toolResult >>

\* after the backoff sleep: return fetchPage(url, retryCount + 1)
BackoffWake(p) ==
  /\ frames[p].pc = "backoff"
  /\ now >= frames[p].wake
  /\ EnterFetch(p, [frames[p] EXCEPT !.retryCount = @ + 1], hist[p])
  /\ UNCHANGED << currentUserAgentIndex, useSerpApiFallback, config,
                  lastSendTime, env, cacheVars,
                  backoffCalls, toolResult >>

\* (mutant) currentStart is not advanced: the same page is asked for again
PageSleepWake_SamePage(p) ==
  /\ frames[p].pc = "pagesleep"
  /\ now >= frames[p].wake
  /\ FreshFetch(p, [frames[p] EXCEPT !.currentStart = @ - resultsPerPage],
                [hist[p] EXCEPT !.offsets =
                   Append(@, frames[p].currentStart - resultsPerPage)])
  /\ UNCHANGED << currentUserAgentIndex, useSerpApiFallback, config,
                  lastSendTime, env, cacheVars,
                  backoffCalls, toolResult >>

\* after the inter-page sleep the loop condition still holds: next page
PageSleepWake(p) ==
  /\ frames[p].pc = "pagesleep"
  /\ now >= frames[p].wake
  /\ FreshFetch(p, frames[p],
                [hist[p] EXCEPT !.offsets = Append(@, frames[p].currentStart)])
  /\ UNCHANGED << currentUserAgentIndex, useSerpApiFallback, config,
                  lastSendTime, env, cacheVars,
                  backoffCalls, toolResult >>

\* the promise of the operation is settled and the caller has taken the
\* result; the host makes its next call later
Reset(p) ==
  /\ frames[p].pc = "done"
  /\ frames' = [frames EXCEPT ![p] = IdleFrame]
  /\ result' = [result EXCEPT ![p] = NoResult]
  /\ hist' = [hist EXCEPT ![p] = NoHist]
  /\ toolResult' = [toolResult EXCEPT ![p] = NoToolResult]
  /\ UNCHANGED << lastRequestTime, currentUserAgentIndex, useSerpApiFallback,
                  config, lastSendTime, env, cacheVars, backoffCalls >>

(***************************************************************************)
(* Time                                                                    *)
(***************************************************************************)
\* p has code to run now: a timer that is due, or the continuation of an
\* await on an already settled promise (a microtask, run before any timer)
Due(p) ==
  \/ frames[p].pc \in Sleeping /\ frames[p].wake <= now
  \/ frames[p].pc \in { "send", "done" }

\* an invocation slot in which the host can make a call
Free(p) == p \in env.procs /\ frames[p].pc = "idle"

\* The clock moves to the next timer; while the host can still make a call it
\* moves by IdleStep at most, so that a call can start between two timers.
\* Code that is due runs first.  Moving the clock by d moves every kept
\* time back by d.
Tick ==
  /\ \A p \in Procs : ~Due(p)
  /\ LET timers == { frames[p].wake : p \in { q \in Procs : frames[q].pc \in Sleeping } }
         steps == timers \cup (IF \E p \in Procs : Free(p) THEN { IdleStep } ELSE {})
     IN  /\ steps # {}
         /\ LET d == CHOOSE t \in steps : \A u \in steps : t <= u
            IN  /\ frames' = [p \in Procs |->
                      IF frames[p].pc \in Sleeping
                      THEN [frames[p] EXCEPT !.wake = @ - d] ELSE frames[p]]
                /\ lastRequestTime' = Max(lastRequestTime - d, -LongAgo)
                /\ lastSendTime' = Max(lastSendTime - d, -LongAgo)
                /\ cache' = Aged(cache, d)
                /\ cacheWritten' = Aged(cacheWritten, d)
  /\ UNCHANGED << currentUserAgentIndex, useSerpApiFallback, config, result,
                  hist, env, cacheEnabled, cacheHist, backoffCalls, toolResult >>

Next ==
  \/ \E p \in Procs : Start(p)
  \/ \E p \in Procs : PacerWake(p)
  \/ \E p \in Procs : Send(p)
  \/ \E p \in Procs : Respond(p)
  \/ \E p \in Procs : BackoffWake(p)
  \/ \E p \in Procs : PageSleepWake(p)
  \/ \E p \in Procs : AltRespond(p)
  \/ \E p \in Procs : Reset(p)
  \/ UpdateConfig
  \/ Tick

Spec == Init /\ [][Next]_vars

\* In ConcurrentEnv no request fails at transport level and every operation
\* is over after one page: the two sleeps below never start.
NextConcurrent ==
  \/ \E p \in Procs : Start(p)
  \/ \E p \in Procs : PacerWake(p)
  \/ \E p \in Procs : Send(p)
  \/ \E p \in Procs : Respond(p)
  \/ \E p \in Procs : AltRespond(p)
  \/ \E p \in Procs : Reset(p)
  \/ UpdateConfig
  \/ Tick

SpecConcurrent == InitConcurrent /\ [][NextConcurrent]_vars

SpecFetch == InitFetch /\ [][Next]_vars

SpecPages == InitPages /\ [][Next]_vars

\* one caller that pages through a source by resuming from nextStartIndex;
\* the source answers every request with a page
ResumeEnv ==
  [bodies |-> {}, shapes |-> { EmptyPage, FullPage, NinePage }, failures |-> FALSE,
   procs |-> {"p1"}, ops |-> { "searchPublications", "getCitations" },
   numResults |-> { 5, 10 }, startIndexes |-> StartIndexSet,
   cacheEnabled |-> { TRUE },
   configs |-> { [serpApiKey |-> FALSE, useSerpApiFallback |-> FALSE] }]

InitResume == InitWith(ResumeEnv)

NextResume ==
  \/ \E p \in Procs : Start(p)
  \/ \E p \in Procs : PacerWake(p)
  \/ \E p \in Procs : Send(p)
  \/ \E p \in Procs : Respond(p)
  \/ \E p \in Procs : PageSleepWake(p)
  \/ \E p \in Procs : Resume(p)
  \/ \E p \in Procs : Reset(p)
  \/ Tick

SpecResume == InitResume /\ [][NextResume]_vars

\* the alternate provider called on its own, with and without an API key
AlternateEnv ==
  [bodies |-> {}, shapes |-> {}, failures |-> FALSE, procs |-> {"p1"},
   ops |-> {}, numResults |-> NumResultsSet, startIndexes |-> PageStarts,
   cacheEnabled |-> { TRUE }, configs |-> Configs]

InitAlternate == InitWith(AlternateEnv)

NextAlternate ==
  \/ \E p \in Procs : CallAlternate(p)
  \/ \E p \in Procs : AltRespond(p)
  \/ \E p \in Procs : Reset(p)
  \/ UpdateConfig
  \/ Tick

SpecAlternate == InitAlternate /\ [][NextAlternate]_vars

NextCache ==
  \/ GenerateKey
  \/ \E key \in CacheKeys, data \in CacheValues, ttl \in TtlArgs :
       CacheSet(key, data, ttl)
  \/ \E key \in CacheKeys : CacheGet(key)
  \/ \E key \in CacheKeys : CacheDelete(key)
  \/ CacheClear
  \/ Cleanup
  \/ SetCacheEnabled
  \/ Elapse

SpecCache == InitCache /\ [][NextCache]_vars

\* getBackoffDelay(attempt) called on its own, for any attempt number
MaxAttempt == 10

BackoffEnv ==
  [bodies |-> {}, shapes |-> {}, failures |-> FALSE, procs |-> {}, ops |-> {},
   numResults |-> {}, startIndexes |-> {}, cacheEnabled |-> { TRUE },
   configs |-> { [serpApiKey |-> FALSE, useSerpApiFallback |-> FALSE] }]

InitBackoff == InitWith(BackoffEnv)

BackoffCall(attempt) == [attempt |-> attempt, delay |-> getBackoffDelay(attempt)]

GetBackoffDelay ==
  /\ \E attempt \in 0..MaxAttempt :
       backoffCalls' = SubSeq(<< BackoffCall(attempt) >> \o backoffCalls, 1,
                              Min(2, Len(backoffCalls) + 1))
  /\ UNCHANGED << lastRequestTime, currentUserAgentIndex, useSerpApiFallback,
                  config, frames, result, hist, lastSendTime, env, cacheVars,
                  toolResult >>

NextBackoff == GetBackoffDelay

SpecBackoff == InitBackoff /\ [][NextBackoff]_vars

(***************************************************************************)
(* Properties                                                              *)
(***************************************************************************)
BlockCodes == { RATE_LIMITED, BLOCKED }

\* the body holds the phrase, in whatever letter case
ContainsAnyCase(body, phrase) ==
  \E i \in 1..Len(body) : Substring(phrase, body[i].phrase)

SoftBlockBody(body) == \E w \in rateLimitIndicators : ContainsAnyCase(body, w)
HardBlockBody(body) == \E w \in blockIndicators : ContainsAnyCase(body, w)

\* fetchPage has dealt with a response of the primary source
Answered(p) == hist[p].fetchOutcome \notin { "none", "pending" } /\ hist[p].html # << >>

\* the last fetchPage call of p threw RATE_LIMITED or BLOCKED
BlockedOnPrimary(p) == hist[p].fetchOutcome \in BlockCodes

\* C1: the selector flag never goes from ALTERNATE (TRUE) back to PRIMARY
\* (FALSE); being a two-valued flag that starts at PRIMARY, it therefore
\* goes from PRIMARY to ALTERNATE at most once.
C1_SelectorNeverReturns == [][useSerpApiFallback => useSerpApiFallback']_vars

\* an operation that started in ALTERNATE has reached the primary source and
\* was blocked there, and the flag is still ALTERNATE
C1_Witness ==
  /\ useSerpApiFallback
  /\ \E p \in Procs : hist[p].flagAtStart /\ BlockedOnPrimary(p)

\* C2 (as claimed): whenever an operation's fetch from the primary has failed
\* with RateLimited or Blocked while the alternate was configured and
\* enabled, the selector is ALTERNATE.
C2_EveryBlockedOperationSwitches ==
  \A p \in Procs :
    BlockedOnPrimary(p) /\ hist[p].availAtRaise => useSerpApiFallback

\* C3 (as claimed): an operation blocked on the primary while the alternate
\* was available gives its caller the alternate provider's outcome, never the
\* primary's RateLimited or Blocked error.
C3_BlockedOperationAnsweredByAlternate ==
  \A p \in Procs :
    frames[p].pc = "done" /\ BlockedOnPrimary(p) /\ hist[p].availAtRaise
      => /\ result[p].provider = "alternate"
         /\ hist[p].altSent = 1
         /\ ~(result[p].kind = "error" /\ result[p].code \in BlockCodes)

\* C4: an operation blocked on the primary while the alternate is not
\* configured or not enabled fails with that same error kind, has sent nothing
\* to the alternate provider, and leaves the selector as it found it.
C4_ErrorPropagatesWithoutAlternate ==
  \A p \in Procs :
    frames[p].pc = "done" /\ BlockedOnPrimary(p) /\ ~hist[p].availAtRaise
      => /\ result[p] = ErrorResult(hist[p].fetchOutcome, "primary")
         /\ hist[p].altSent = 0
         /\ useSerpApiFallback = hist[p].flagAtStart

C4_Witness ==
  \E p \in Procs :
    /\ frames[p].pc = "done" /\ frames[p].op = "searchPublications"
    /\ hist[p].fetchOutcome = BLOCKED /\ ~hist[p].availAtRaise
    /\ config.serpApiKey /\ ~useSerpApiFallback

\* C5 (as claimed): an operation that starts when the selector is ALTERNATE
\* sends no request to the primary source.
C5_NoPrimaryRequestOnceAlternate ==
  \A p \in Procs : hist[p].flagAtStart => hist[p].primarySent = 0

BackoffSchedule == << 1000, 2000, 4000 >>

\* C8: a fetch makes at most 4 HTTP attempts; before retry k+1 it sleeps
\* 1000 * 2^k ms; it fails with NetworkError only after the 4th attempt
\* failed at transport level; once an attempt succeeds it returns that body
\* with no further sleep or attempt.
C8_RetryCeiling ==
  \A p \in Procs :
    LET h == hist[p]
        f == frames[p]
    IN  /\ h.attempts <= 4
        /\ Len(h.slept) <= 3
        /\ h.slept = SubSeq(BackoffSchedule, 1, Len(h.slept))
        /\ f.pc = "backoff" =>
             /\ Len(h.slept) = h.attempts
             /\ f.wake <= h.slept[Len(h.slept)]
        /\ f.pc = "http" => Len(h.slept) = h.attempts - 1
        /\ h.fetchOutcome = "retry" => h.attempts <= 3
        /\ h.fetchOutcome = NETWORK_ERROR =>
             /\ h.attempts = 4 /\ h.slept = BackoffSchedule
             /\ f.pc = "done" /\ result[p].code = NETWORK_ERROR
        /\ h.fetchOutcome = "html" =>
             /\ Len(h.slept) = h.attempts - 1
             /\ h.html = CleanHtml
             /\ f.pc \notin { "backoff" }

\* all four attempts of a fetch failed
C8_Witness ==
  \E p \in Procs :
    hist[p].fetchOutcome = NETWORK_ERROR /\ hist[p].slept = BackoffSchedule

\* C9 (as claimed): a request to the primary source is sent no sooner after
\* the previous one, of whichever operation, than the pacing delay drawn for
\* it.
C9_RequestsArePaced ==
  [][\A p \in Procs :
       frames[p].pc = "send" /\ frames'[p].pc = "http"
         => now - lastSendTime >= frames[p].delay]_vars

\* C10: every HTTP attempt of a fetch, the first and each retry, comes after
\* a waitForRateLimit call of its own that has completed: a fetch never has
\* made more attempts than it has completed acquisitions, and holds at most
\* one acquisition it has not used yet.
C10_EveryAttemptIsPaced ==
  \A p \in Procs :
    /\ hist[p].attempts <= hist[p].acquires
    /\ hist[p].acquires <= hist[p].attempts + 1
    /\ frames[p].pc = "http" => hist[p].acquires = hist[p].attempts

\* the third retry of a fetch was sent, after four acquisitions
C10_Witness ==
  \E p \in Procs :
    frames[p].pc = "http" /\ hist[p].attempts = 4 /\ hist[p].acquires = 4

\* C11 (as claimed): every request sent by fetch carries a User-Agent that is
\* one of the pool's identity strings, and the shared rotation index is always
\* a valid position of the pool.
C11_UserAgentFromPool ==
  /\ currentUserAgentIndex \in 0..(Len(DEFAULT_USER_AGENTS) - 1)
  /\ \A p \in Procs :
       hist[p].primarySent > 0 =>
         \E i \in 1..Len(DEFAULT_USER_AGENTS) :
           hist[p].userAgent = DEFAULT_USER_AGENTS[i]

\* a paginated operation has returned a result built from the primary source
PaginatedDone(p) ==
  /\ frames[p].pc = "done" /\ frames[p].op \in Paginated
  /\ result[p].kind = "ok" /\ result[p].provider = "primary"

\* the records of a sequence of pages, page after page
RECURSIVE RecordsOf(_, _)
RecordsOf(pages, source) ==
  IF pages = << >> THEN << >>
  ELSE parsePublicationResults(Head(pages), source) \o RecordsOf(Tail(pages), source)

\* C12: a paginated operation returns at most numResults records, and they
\* are the first numResults records of the pages it read, in page order
\* (ascending result number).
C12_AtMostTargetInPageOrder ==
  \A p \in Procs :
    PaginatedDone(p) =>
      LET out == result[p].publications
          all == RecordsOf(hist[p].pages, SourceTag(frames[p].op))
      IN  /\ Len(out) <= frames[p].numResults
          /\ out = SubSeq(all, 1, Min(frames[p].numResults, Len(all)))
          /\ \A i, j \in 1..Len(out) : i < j => out[i].title < out[j].title

\* two full pages were read for a target of 15: 20 records, 15 returned
C12_Witness ==
  \E p \in Procs :
    /\ PaginatedDone(p) /\ frames[p].numResults = 15
    /\ Len(hist[p].pages) = 2
    /\ Len(RecordsOf(hist[p].pages, SourceTag(frames[p].op))) = 20
    /\ Len(result[p].publications) = 15

\* number of cards with a title on one page
Titled(cards) == Cardinality({ i \in 1..Len(cards) : cards[i].title # NoTitle })

\* number of pages that hold at least one card
RECURSIVE NonEmptyPages(_)
NonEmptyPages(pages) ==
  IF pages = << >> THEN 0
  ELSE (IF Len(Head(pages)) > 0 THEN 1 ELSE 0) + NonEmptyPages(Tail(pages))

\* number of cards with a title on all the pages
RECURSIVE TitledCards(_)
TitledCards(pages) ==
  IF pages = << >> THEN 0 ELSE Titled(Head(pages)) + TitledCards(Tail(pages))

\* C13 (as claimed): a paginated collection returns no fewer records than
\* the smaller of numResults and 10 times the number of non-empty pages the
\* source served from the start offset.
C13_AtLeastPagesTimesPageSize ==
  \A p \in Procs :
    PaginatedDone(p) =>
      Len(result[p].publications) >=
        Min(frames[p].numResults, NonEmptyPages(hist[p].pages) * resultsPerPage)

\* C13 (amended): a paginated collection returns no fewer records than the
\* smaller of numResults and the number of titled cards on the pages served
\* from the start offset up to the first page that yields no record; it
\* stops short of numResults only on such a page.
C13_AtLeastTitledCards ==
  \A p \in Procs :
    PaginatedDone(p) =>
      LET pages == hist[p].pages
          n == Len(result[p].publications)
      IN  /\ n >= Min(frames[p].numResults, TitledCards(pages))
          /\ \A k \in 1..(Len(pages) - 1) : Titled(pages[k]) > 0
          /\ n < frames[p].numResults =>
                Len(pages) > 0 /\ Titled(pages[Len(pages)]) = 0

\* a page with two untitled cards, then an empty page, for a target of 15:
\* 8 records are returned
C13_Witness ==
  \E p \in Procs :
    /\ PaginatedDone(p) /\ frames[p].numResults = 15
    /\ Len(hist[p].pages) = 2 /\ NonEmptyPages(hist[p].pages) = 1
    /\ Len(result[p].publications) = 8

\* s is an initial part of t
IsPrefix(s, t) == Len(s) <= Len(t) /\ s = SubSeq(t, 1, Len(s))

\* a source that holds two 10-card pages, the 14th and 15th card without a
\* title, and then nothing
TwoPageSource ==
  << CardsOf(FullPage, 0), CardsOf(HolesPage, resultsPerPage),
     CardsOf(EmptyPage, 2 * resultsPerPage) >>

\* searchPublications with numResults = 10 from offset 0 has returned, and
\* what it read is what TwoPageSource serves
TwoPageSearchDone(p) ==
  /\ PaginatedDone(p) /\ frames[p].op = "searchPublications"
  /\ frames[p].numResults = 10 /\ frames[p].startIndex = 0
  /\ IsPrefix(hist[p].pages, TwoPageSource)

\* C14 (as claimed): that search returns exactly 10 records, all with a
\* title, and reports hasMore = false.
C14_TenRecordsNoMore ==
  \A p \in Procs :
    TwoPageSearchDone(p) =>
      /\ Len(result[p].publications) = 10
      /\ \A i \in 1..10 : result[p].publications[i].title # NoTitle
      /\ ~result[p].hasMore

\* C14 (amended): that search returns exactly 10 records, all with a title,
\* after reading the first page only, and reports hasMore = true with
\* nextStartIndex = 10.
C14_TenRecordsAndMore ==
  \A p \in Procs :
    TwoPageSearchDone(p) =>
      /\ Len(result[p].publications) = 10
      /\ \A i \in 1..10 : result[p].publications[i].title # NoTitle
      /\ hist[p].pages = << CardsOf(FullPage, 0) >>
      /\ result[p].hasMore
      /\ result[p].nextStartIndex = 10

\* the search read the first page of TwoPageSource with one request
C14_Witness == \E p \in Procs : TwoPageSearchDone(p) /\ hist[p].primarySent = 1

\* C15 (as claimed): every record returned to a caller, whether it comes
\* from the primary extractor or from the alternate provider's adapter, has a
\* non-empty title.
C15_ReturnedTitlesNonEmpty ==
  \A p \in Procs :
    result[p].kind = "ok" =>
      \A i \in 1..Len(result[p].publications) :
        result[p].publications[i].title # NoTitle

\* the cards of a sequence of pages, page after page
RECURSIVE Flatten(_)
Flatten(pages) ==
  IF pages = << >> THEN << >> ELSE Head(pages) \o Flatten(Tail(pages))

TitlesOf(items) == [i \in 1..Len(items) |-> items[i].title]

HasTitle(title) == title # NoTitle

\* C16: extraction yields exactly one record per card that has a title, in
\* page order, and skips the cards without one: what a paginated operation
\* has accumulated is, page after page, the titled cards of the pages it
\* parsed, n - m records for n cards of which m lack a title.
C16_OneRecordPerTitledCard ==
  \A p \in Procs :
    frames[p].op \in Paginated =>
      LET pubs == frames[p].publications
          cards == Flatten(hist[p].pages)
          m == Cardinality({ i \in 1..Len(cards) : cards[i].title = NoTitle })
      IN  /\ Len(pubs) = Len(cards) - m
          /\ TitlesOf(pubs) = SelectSeq(TitlesOf(cards), HasTitle)

\* a page of 9 cards, one without a title, gave 8 records
C16_Witness ==
  \E p \in Procs :
    /\ frames[p].op \in Paginated
    /\ hist[p].pages = << CardsOf(NinePage, 0) >>
    /\ Len(frames[p].publications) = 8

\* this step is a call `op` of the cache interface
CallStep(op) == cacheHist'.seq # cacheHist.seq /\ cacheHist'.op = op

\* C17: with caching enabled, get(k) returns the value of the last set(k)
\* not followed by a delete, as long as the age of that entry is at most its
\* ttl; once the age exceeds the ttl, get(k) returns absent and the map holds
\* no entry for k afterwards.
C17_RoundTripUntilTtl ==
  [][\A k \in CacheKeys :
       CallStep("get") /\ cacheHist'.key = k /\ cacheEnabled /\ cacheWritten[k].present
         => LET w == cacheWritten[k]
            IN  /\ w.age <= w.ttl => cacheHist'.returned = w.data
                /\ w.age > w.ttl =>
                     /\ cacheHist'.returned = Absent
                     /\ ~cache'[k].present]_vars

\* a get has just returned a value whose age equals its ttl
C17_Witness ==
  /\ cacheHist.op = "get" /\ cacheHist.returned \in CacheValues
  /\ \E k \in CacheKeys :
       /\ cacheHist.key = k /\ cache[k].present
       /\ cache[k].age = cache[k].ttl /\ cache[k].ttl = CacheStep

\* C18: the key generated for an operation name and a parameter record is
\* the key generated for every other insertion order of the same pairs.
C18_KeyIgnoresInsertionOrder ==
  cacheHist.op = "generateKey" =>
    \A other \in Orders(cacheHist.params) :
      generateKey(cacheHist.type, other) = cacheHist.key

\* a key was generated for a record whose names were not inserted in sorted
\* order
C18_Witness ==
  /\ cacheHist.op = "generateKey"
  /\ cacheHist.params[1].name = "year" /\ cacheHist.params[3].name = "author"

\* C19: while caching is off every get returns absent and every set leaves
\* the map as it is; a value that get returns is always the value of a set
\* made while caching was on.
C19_DisabledIsPassThrough ==
  [][/\ CallStep("get") /\ ~cacheEnabled => cacheHist'.returned = Absent
     /\ CallStep("set") /\ ~cacheEnabled => cache' = cache
     /\ \A k \in CacheKeys :
          CallStep("get") /\ cacheHist'.key = k /\ cacheHist'.returned # Absent
            => cacheWritten[k].present /\ cacheHist'.returned = cacheWritten[k].data]_vars

\* caching is off, the map holds an unexpired entry, and a get of its key has
\* just returned absent
C19_Witness ==
  /\ ~cacheEnabled /\ cacheHist.op = "get" /\ cacheHist.returned = Absent
  /\ \E k \in CacheKeys :
       cacheHist.key = k /\ cache[k].present /\ ~isExpired(cache[k])

\* C20 (as claimed): when an operation has completed with a result, the
\* Result Cache (enabled) holds an entry for it.
C20_CompletedOperationIsCached ==
  \A p \in Procs :
    frames[p].pc = "done" /\ result[p].kind = "ok" /\ cacheEnabled
      => \E k \in CacheKeys : cache[k].present

\* the operation of p was called with its required parameter missing, empty
\* or made of whitespace only
InvalidCall(p) == frames[p].op # "none" /\ ~frames[p].queryOk

\* C21: an operation called with a missing, empty or whitespace-only required
\* parameter fails with InvalidInput before any request is sent and before
\* any pacer acquisition, whatever the state of the selector
C21_InvalidInputBeforeAnyRequest ==
  \A p \in Procs :
    InvalidCall(p) =>
      /\ hist[p].primarySent = 0
      /\ hist[p].altSent = 0
      /\ hist[p].acquires = 0
      /\ frames[p].pc = "done"
      /\ result[p] \in { ErrorResult(INVALID_INPUT, "none") }

\* C22: getBackoffDelay(a) = min(minDelay * multiplier^a, 10 * maxDelay) for
\* every attempt a >= 0; with the defaults it is 1000, 2000, 4000 for a = 0, 1,
\* 2, it never decreases as a grows and never exceeds 50000
C22_BackoffIsCappedExponential ==
  \A i \in 1..Len(backoffCalls) :
    LET a == backoffCalls[i].attempt
        d == backoffCalls[i].delay
    IN  /\ d = Min(minDelay * backoffMultiplier ^ a, 10 * maxDelay)
        /\ a <= 2 => d = BackoffSchedule[a + 1]
        /\ d <= 50000
        /\ \A j \in 1..Len(backoffCalls) :
             backoffCalls[j].attempt <= a => backoffCalls[j].delay <= d

\* the delay of attempt 2 and, after it, the first capped delay
C22_Witness ==
  /\ Len(backoffCalls) = 2
  /\ backoffCalls[2] = [attempt |-> 2, delay |-> 4000]
  /\ backoffCalls[1] = [attempt |-> 6, delay |-> 50000]

\* the upstream call of the alternate provider did not succeed
UpstreamFailed(p) == hist[p].altOutcome \in { "fail", "status", "error" }

\* C23: every alternate-provider operation whose upstream call fails at
\* transport level, returns a non-success status or returns a body with an
\* error field fails with NetworkError: no other kind, no partial result
C23_UpstreamFailureIsNetworkError ==
  \A p \in Procs :
    UpstreamFailed(p) =>
      /\ frames[p].pc = "done"
      /\ result[p].kind = "error"
      /\ result[p].code = NETWORK_ERROR
      /\ result[p].publications = << >>

\* getAllVersionsSerpApi received a body that declares an error
C23_Witness ==
  \E p \in Procs :
    /\ frames[p].op = "getAllVersionsSerpApi"
    /\ hist[p].altOutcome = "error"
    /\ result[p] = ErrorResult(NETWORK_ERROR, "alternate")

\* the operation of p was called by its tool handler and raised an error
ToolCallFailed(p) ==
  frames[p].pc = "done" /\ ViaTool(frames[p]) /\ result[p].kind = "error"

\* C24: every error raised inside an operation reaches the tool caller as an
\* error result (isError set), never as a thrown exception, and with its
\* kind kept: RateLimited, Blocked, NotFound and InvalidInput each give
\* their own message
C24_ErrorsReachCallerAsErrorResults ==
  \A p \in Procs :
    ToolCallFailed(p) =>
      /\ toolResult[p].outcome = "returned"
      /\ toolResult[p].isError
      /\ result[p].code = RATE_LIMITED =>
           toolResult[p].advice = "wait a few minutes before trying again"
      /\ result[p].code = BLOCKED =>
           toolResult[p].advice = "blocked, try again later or use a different network"
      /\ result[p].code = NOT_FOUND =>
           toolResult[p].advice = "not found, check the ID"
      /\ result[p].code = INVALID_INPUT =>
           toolResult[p].advice = "check your input parameters"

\* get_author_profile for an id without a profile page
C24_Witness ==
  \E p \in Procs :
    /\ ToolCallFailed(p)
    /\ result[p].code = NOT_FOUND
    /\ toolResult[p].isError
    /\ toolResult[p].advice = "not found, check the ID"

\* the offset the loop of the operation starts from
LoopStart(f) == IF f.op = "advancedSearch" THEN 0 ELSE f.startIndex

\* number of records page i gave, and number of records accumulated once
\* page i was pushed
PageRecords(p, i) ==
  Len(parsePublicationResults(hist[p].pages[i], SourceTag(frames[p].op)))

Accumulated(p, i) ==
  Len(RecordsOf(SubSeq(hist[p].pages, 1, i), SourceTag(frames[p].op)))

\* the while loop of the operation has been left in the normal way
LoopOver(p) ==
  /\ frames[p].op \in Paginated
  /\ frames[p].phase = "total" \/ PaginatedDone(p)

\* C25: the pagination loop fetches its pages one after another at the
\* offsets start, start + 10, ...; it stops as soon as the accumulated count
\* reaches numResults or a page gives no record, and makes at most
\* numResults + 1 page fetches
C25_PagesInOrderUntilTargetOrEmpty ==
  \A p \in Procs :
    frames[p].op \in Paginated =>
      LET n == Len(hist[p].offsets)
          k == Len(hist[p].pages)
      IN  /\ \A i \in 1..n :
               hist[p].offsets[i] = LoopStart(frames[p]) + resultsPerPage * (i - 1)
          /\ n \in { k, k + 1 }
          /\ \A i \in 1..(n - 1) :
               PageRecords(p, i) > 0 /\ Accumulated(p, i) < frames[p].numResults
          /\ LoopOver(p) =>
               /\ n = k /\ k >= 1
               /\ PageRecords(p, k) = 0 \/ Accumulated(p, k) >= frames[p].numResults
          /\ n <= frames[p].numResults + 1

\* searchPublications from offset 10 asked for the offsets 10 and 20 and
\* stopped on the second page, which gave no record
C25_Witness ==
  \E p \in Procs :
    /\ LoopOver(p) /\ frames[p].startIndex = 10
    /\ frames[p].op = "searchPublications"
    /\ hist[p].offsets = << 10, 20 >>
    /\ PageRecords(p, 2) = 0

\* C26: the fixed inter-page delay is taken after a page exactly when that
\* page gave records and the accumulated count is still below numResults:
\* never after the page that reaches the target, never after an empty page;
\* every page fetch but the first comes after exactly one such delay
C26_DelayOnlyBetweenPages ==
  \A p \in Procs :
    frames[p].op \in Paginated =>
      LET k == Len(hist[p].pages)
      IN  /\ Len(hist[p].pageDelays) = k
          /\ \A i \in 1..k :
               hist[p].pageDelays[i] =
                 IF PageRecords(p, i) > 0 /\ Accumulated(p, i) < frames[p].numResults
                 THEN PAGE_SLEEP ELSE 0
          /\ \A i \in 2..Len(hist[p].offsets) : hist[p].pageDelays[i - 1] = PAGE_SLEEP
          /\ frames[p].pc = "pagesleep" =>
               /\ k >= 1 /\ hist[p].pageDelays[k] = PAGE_SLEEP
               /\ Len(hist[p].offsets) = k
               /\ frames[p].wake \in 0..PAGE_SLEEP

\* two pages read for a target of 15: a delay after the first page, none
\* after the second, which reached the target
C26_Witness ==
  \E p \in Procs :
    /\ PaginatedDone(p) /\ frames[p].numResults = 15
    /\ hist[p].pageDelays = << PAGE_SLEEP, 0 >>
    /\ Len(hist[p].offsets) = 2

\* the operation of p is over with a result, or with one of the three error
\* kinds that are not blocking signals
EndedWithoutBlockKind(p) ==
  /\ frames[p].pc = "done"
  /\ \/ result[p].kind = "ok"
     \/ result[p].kind = "error"
          /\ result[p].code \in { INVALID_INPUT, NOT_FOUND, NETWORK_ERROR }

\* C27 (as claimed): an operation that succeeds, or that fails with
\* InvalidInput, NotFound or NetworkError, leaves the selector flag as it
\* found it.
C27_OutcomeWithoutBlockKindKeepsFlag ==
  \A p \in Procs :
    EndedWithoutBlockKind(p) => useSerpApiFallback = hist[p].flagAtStart

\* C27 (amended): the selector flag is written only by the blocking-detection
\* path: whatever an operation has done so far and however it ends, the flag
\* differs from what the operation found only if it is searchPublications,
\* its fetch from the primary failed with RateLimited or Blocked and the
\* alternate was available; an alternate-provider call leaves it unchanged
C27_FlagWrittenOnlyOnDetectedBlock ==
  \A p \in Procs :
    frames[p].op # "none" /\ useSerpApiFallback # hist[p].flagAtStart =>
      /\ frames[p].op = "searchPublications"
      /\ BlockedOnPrimary(p)
      /\ hist[p].availAtRaise
      /\ useSerpApiFallback

\* a search that exhausted its retries while the alternate was available
\* ends with NetworkError and the selector still PRIMARY
C27_Witness ==
  \E p \in Procs :
    /\ frames[p].op = "searchPublications" /\ frames[p].pc = "done"
    /\ result[p] = ErrorResult(NETWORK_ERROR, "primary")
    /\ isSerpApiAvailable
    /\ ~hist[p].flagAtStart /\ ~useSerpApiFallback

\* C28: a background sweep removes exactly the entries whose age (now -
\* timestamp) is greater than their ttl and leaves every other entry as it
\* was; right after a sweep no stored entry is expired
C28_SweepRemovesExactlyExpired ==
  [][Cleanup =>
       \A k \in CacheKeys :
         /\ cache[k].present /\ cache[k].age > cache[k].ttl => ~cache'[k].present
         /\ ~(cache[k].present /\ cache[k].age > cache[k].ttl) => cache'[k] = cache[k]
         /\ cache'[k].present => cache'[k].age <= cache'[k].ttl]_vars

\* after the last set, a sweep has removed the short-lived entry that set
\* wrote, and has kept another entry whose age equals its ttl
C28_Witness ==
  \E k, k2 \in CacheKeys :
    /\ k # k2
    /\ cacheHist.op = "set" /\ cacheHist.key = k
    /\ cacheWritten[k].present /\ ~cache[k].present
    /\ cache[k2].present /\ cache[k2].age = cache[k2].ttl

\* a step in which invocation p calls waitForRateLimit
AcquireCalled(p) ==
  /\ frames[p].pc \notin { "pacing", "send" }
  /\ frames'[p].pc \in { "pacing", "send" }

\* a step in which waitForRateLimit returns to fetchPage
AcquireReturns(p) == frames[p].pc # "send" /\ frames'[p].pc = "send"

\* C29: waitForRateLimit draws a delay d in [minDelay, maxDelay]; with e the
\* time since lastRequestTime it returns without sleeping when e >= d and
\* sleeps exactly d - e otherwise; when it returns it sets lastRequestTime to
\* the current time, and lastRequestTime never moves back
C29_AcquireWaitsOutTheInterval ==
  [][/\ \A p \in Procs :
          LET d == frames'[p].delay
              e == now - lastRequestTime
          IN  /\ AcquireCalled(p) =>
                   /\ d \in minDelay..maxDelay
                   /\ e >= d => frames'[p].pc = "send"
                   /\ e < d => /\ frames'[p].pc = "pacing"
                               /\ frames'[p].wake = now + (d - e)
                               /\ lastRequestTime' = lastRequestTime
              /\ AcquireReturns(p) =>
                   /\ lastRequestTime' = now
                   /\ frames[p].pc = "pacing" => frames[p].wake = now
     /\ Tick \/ lastRequestTime' >= lastRequestTime]_vars

\* an acquire made 1500 ms after the last request drew 3000 ms and sleeps
\* the remaining 1500 ms
C29_Witness ==
  \E p \in Procs :
    /\ frames[p].pc = "pacing" /\ frames[p].delay = 3000
    /\ lastRequestTime = -1500
    /\ frames[p].wake = 1500

\* a call resumed from the nextStartIndex of an earlier call has returned
ResumedDone(p) == PaginatedDone(p) /\ hist[p].resumed

\* C30 (as claimed): the records of a first call followed by the records of
\* a second call started at the first call's nextStartIndex hold every record
\* of the pages the first call fetched, each exactly once
C30_ResumeLosesNoRecord ==
  \A p \in Procs :
    ResumedDone(p) =>
      LET both == hist[p].firstRecords \o result[p].publications
          fetched == RecordsOf(hist[p].firstPages, SourceTag(frames[p].op))
      IN  \A i \in 1..Len(fetched) :
            Cardinality({ j \in 1..Len(both) : both[j].title = fetched[i].title }) = 1

====
